---- MODULE Spec2Model ----
(***************************************************************************)
(* ShinyInfo: the ShinyManager of shiny.py (the record store and the       *)
(* reconciliation of the two sources) and the repeating job check_shinies  *)
(* of shinyinfobot.py that drives it.                                      *)
(*                                                                         *)
(* A Python dict is a sequence of items [k |-> key, v |-> value] with      *)
(* pairwise distinct keys, in insertion order.  A Python str that the code *)
(* takes apart (a site identifier, an attribute name) is the sequence of   *)
(* its pieces.  True, False and None are the strings PyTrue, PyFalse and   *)
(* PyNone.                                                                 *)
(***************************************************************************)
EXTENDS Integers, Sequences, FiniteSets, TLC

VARIABLES
    shinies,          \* ShinyManager._shinies: site -> (dex_id -> Shiny)
    new_shinies,      \* ShinyManager._new_shinies: site -> (dex_id -> Shiny)
    changed_shinies,  \* ShinyManager._changed_shinies: site -> (dex_id -> (attr -> [old, new]))
    file,             \* shiny_data.pickle
    pc,               \* position of the job thread
    i,                \* index of the for loop of load_all_shinies
    web,              \* what each source shows at the moment
    edits,            \* how often the sources have changed
    feed,             \* what each site's loader answers during the current pass
    call,             \* the most recent call of _load_shinies
    fetched,          \* per site, the result of its latest successful fetch
    before,           \* _shinies as it was when the current pass began
    stores,           \* the values of i at the calls of _store_shinies_to_file in the current pass
    pass_end,         \* how the latest pass ended
    notified,         \* the diff check_shinies obtained from the manager
    gone,             \* per site, the ids a fetch has dropped from the snapshot
    running,          \* the runs of check_shinies that have started and not ended
    init_end,         \* how ShinyManager.__init__ ended: "none" before it has run
    raw,              \* what a source answers to a loader: the JSON object or the page
    parsed,           \* what the loader made of it
    text,             \* list_shinies: the listing of a site as it was built
    shiny_str,        \* list_shinies: what of the listing is not sent yet
    sent,             \* list_shinies: the messages sent for the site, in order
    cuts,             \* list_shinies: what was not sent yet before each turn of the loop
    list_pc,          \* list_shinies: "none", "loop" or "done"
    chat_data,        \* per chat, the dict context.chat_data
    press             \* the latest run of select_source and what it found

vars == <<shinies, new_shinies, changed_shinies, file, pc, i, web, edits, feed,
          call, fetched, before, stores, pass_end, notified, gone, running, init_end, raw, parsed,
          text, shiny_str, sent, cuts, list_pc, chat_data, press>>

\* the variables of the job and the manager
jobvars == <<shinies, new_shinies, changed_shinies, file, pc, i, web, edits, feed,
             call, fetched, before, stores, pass_end, notified, gone, running>>

\* the variables of a loader taken by itself
loadervars == <<raw, parsed>>

\* the variables the job leaves alone
\* the variables of the pagination of list_shinies
listvars == <<text, shiny_str, sent, cuts, list_pc>>

\* the variables of select_source
selectvars == <<chat_data, press>>

othervars == <<loadervars, listvars, selectvars, init_end>>

----------------------------------------------------------------------------
(* Bounds of the model. *)

\* species ids are 1..MaxDexId
MaxDexId == 2

\* the sources change at most MaxEdits times
MaxEdits == 2

\* the items of a JSON object a loader is given
MaxItems == 2

\* the table rows of a page a loader is given
MaxRows == 3

\* stands for telegram.constants.MAX_MESSAGE_LENGTH
MaxMessageLength == 3

\* the length of a listing
MaxTextLen == 9

\* the messages sent for a listing
MaxMessages == 10

\* the chats are 1..MaxChats
MaxChats == 2

----------------------------------------------------------------------------
(* Python values. *)

PyTrue == "True"
PyFalse == "False"
PyNone == "None"

(* dict *)

Item(k, v) == [k |-> k, v |-> v]

Keys(d) == {d[j].k : j \in 1..Len(d)}

Has(d, k) == \E j \in 1..Len(d) : d[j].k = k

Get(d, k) == d[CHOOSE j \in 1..Len(d) : d[j].k = k].v

\* a dict holds no key twice
NoDuplicates(d) == Len(d) = Cardinality(Keys(d))

GetOr(d, k, default) == IF Has(d, k) THEN Get(d, k) ELSE default

\* d[k] = v: an existing key keeps its place, a new key goes last
Put(d, k, v) ==
    IF Has(d, k)
    THEN [j \in 1..Len(d) |-> IF d[j].k = k THEN Item(k, v) ELSE d[j]]
    ELSE Append(d, Item(k, v))

Without(s, j) == SubSeq(s, 1, j - 1) \o SubSeq(s, j + 1, Len(s))

\* sorted(d.items()) of a dict with integer keys
RECURSIVE Sorted(_)
Sorted(items) ==
    IF items = <<>> THEN <<>>
    ELSE LET j == CHOOSE a \in 1..Len(items) :
                      \A b \in 1..Len(items) : items[a].k <= items[b].k
         IN <<items[j]>> \o Sorted(Without(items, j))

----------------------------------------------------------------------------
(* class Shiny *)

\* Shiny.__dict__.keys(), in the order __init__ assigns them
Attrs == <<"dex_id", "wild", "raid", "evolution", "egg", "research", "mystery">>

Flags == {"wild", "raid", "evolution", "egg", "research", "mystery"}

Shiny(dex_id, wild, raid, evolution, egg, research, mystery) ==
    [dex_id |-> dex_id, wild |-> wild, raid |-> raid, evolution |-> evolution,
     egg |-> egg, research |-> research, mystery |-> mystery]

\* faulty variant of ShinyEq: no __eq__, so two objects are equal only if they are the same object
ShinyIs(self, other) == FALSE

ShinyEq(self, other) ==
    /\ self.dex_id = other.dex_id
    /\ self.wild = other.wild
    /\ self.raid = other.raid
    /\ self.evolution = other.evolution
    /\ self.egg = other.egg
    /\ self.research = other.research
    /\ self.mystery = other.mystery

----------------------------------------------------------------------------
(* The sites and the loaders. *)

pogoapi_net == <<"pogoapi", ".", "net">>
gamepress_gg == <<"gamepress", ".", "gg">>

supported_sites == <<pogoapi_net, gamepress_gg>>

SupportedSet == {supported_sites[j] : j \in 1..Len(supported_sites)}

\* identifiers _load_shinies is called with that are no supported site
OtherIds == {<<"from", "_", "file">>, <<"example", ".", "com">>}

\* f"_load_shinies_{site.replace('.', '_')}"
SiteMethod(site) ==
    <<"_load_shinies_">> \o [j \in 1..Len(site) |-> IF site[j] = "." THEN "_" ELSE site[j]]

load_shinies_from_file == <<"_load_shinies_", "from", "_", "file">>
load_shinies_pogoapi_net == <<"_load_shinies_", "pogoapi", "_", "net">>
load_shinies_gamepress_gg == <<"_load_shinies_", "gamepress", "_", "gg">>

\* the attributes of a ShinyManager whose name starts with _load_shinies_
LoadShiniesAttrs ==
    {load_shinies_from_file, load_shinies_pogoapi_net, load_shinies_gamepress_gg}

HasAttr(name) == name \in LoadShiniesAttrs

\* the characters str.isdigit accepts, by value
Digits == <<"0", "1", "2", "3", "4", "5", "6", "7", "8", "9">>

IsDigit(c) == \E j \in 1..Len(Digits) : Digits[j] = c

DigitValue(c) == (CHOOSE j \in 1..Len(Digits) : Digits[j] = c) - 1

\* int(s) of a string of digits
RECURSIVE PyInt(_)
PyInt(s) ==
    IF s = <<>> THEN 0
    ELSE 10 * PyInt(SubSeq(s, 1, Len(s) - 1)) + DigitValue(s[Len(s)])

\* "".join(digit for digit in link if digit.isdigit())
OnlyDigits(link) == SelectSeq(link, IsDigit)

\* 'found_x' in shiny_data and shiny_data['found_x']
Found(shiny_data, key) == IF Has(shiny_data, key) THEN Get(shiny_data, key) ELSE PyFalse

\* the Shiny the loop of _load_shinies_pogoapi_net builds from one item of the JSON object
PogoapiNetShiny(dex_id, shiny_data) ==
    Shiny(dex_id, Found(shiny_data, "found_wild"), Found(shiny_data, "found_raid"),
          Found(shiny_data, "found_evolution"), Found(shiny_data, "found_egg"),
          PyNone, PyNone)

\* faulty variant of PogoapiNetLoop: an id met again keeps its first record
RECURSIVE PogoapiNetLoopKeepFirst(_, _)
PogoapiNetLoopKeepFirst(items, shiny_list) ==
    IF items = <<>> THEN shiny_list
    ELSE LET dex_id == PyInt(Head(items).k)
         IN  PogoapiNetLoopKeepFirst(Tail(items),
                 IF Has(shiny_list, dex_id) THEN shiny_list
                 ELSE Put(shiny_list, dex_id, PogoapiNetShiny(dex_id, Head(items).v)))

\* for dex_id, shiny_data in data.items(): ... shiny_list[dex_id] = shiny
RECURSIVE PogoapiNetLoop(_, _)
PogoapiNetLoop(items, shiny_list) ==
    IF items = <<>> THEN shiny_list
    ELSE LET dex_id == PyInt(Head(items).k)
         IN  PogoapiNetLoop(Tail(items),
                 Put(shiny_list, dex_id, PogoapiNetShiny(dex_id, Head(items).v)))

\* _load_shinies_pogoapi_net on the JSON object data
LoadShiniesPogoapiNet(data) == PogoapiNetLoop(data, <<>>)

\* mapping of html classes for shinies to Shiny class attributes, in dict order
class_mapping ==
    << [html_class |-> "Raids", class_attr |-> "raid"],
       [html_class |-> "Wild", class_attr |-> "wild"],
       [html_class |-> "Nesting", class_attr |-> "wild"],
       [html_class |-> "Evolution", class_attr |-> "evolution"],
       [html_class |-> "Eggs", class_attr |-> "egg"],
       [html_class |-> "Research", class_attr |-> "research"],
       [html_class |-> "Mystery", class_attr |-> "mystery"] >>

\* contains(@class, html_class): a row's class attribute is a sequence of class names
Contains(class, html_class) == \E j \in 1..Len(class) : class[j] = html_class

\* data.xpath(f"//tr[contains(@class, '{html_class}')]//a"): the href of every
\* link of the matching rows, in document order
RECURSIVE ShinyLinks(_, _)
ShinyLinks(rows, html_class) ==
    IF rows = <<>> THEN <<>>
    ELSE (IF Contains(Head(rows).class, html_class) THEN Head(rows).links ELSE <<>>)
         \o ShinyLinks(Tail(rows), html_class)

\* Shiny(dex_id=dex_id, wild=False, ..., mystery=False)
NewShiny(dex_id) == Shiny(dex_id, PyFalse, PyFalse, PyFalse, PyFalse, PyFalse, PyFalse)

\* faulty variant of GamepressGgLinks: an id met again gets a record of that class only
RECURSIVE GamepressGgLinksLastOnly(_, _, _)
GamepressGgLinksLastOnly(shiny_links, class_attr, acc) ==
    IF shiny_links = <<>> THEN acc
    ELSE LET dex_id == PyInt(OnlyDigits(Head(shiny_links)))
         IN  GamepressGgLinksLastOnly(Tail(shiny_links), class_attr,
                 IF ~Has(acc.shiny_result, dex_id)
                 THEN [shiny_result |-> Put(acc.shiny_result, dex_id, NewShiny(dex_id)),
                       on_class |-> acc.on_class \cup {class_attr}]
                 ELSE [acc EXCEPT !.shiny_result =
                          Put(@, dex_id, [NewShiny(dex_id) EXCEPT ![class_attr] = PyTrue])])

\* for link_tag in shiny_links: acc.shiny_result is the dict being built and
\* acc.on_class the attributes set on the class Shiny itself.  A new id gets a record
\* with every flag False and setattr(Shiny, class_attr, True) sets the attribute
\* of the class, which no record shows: each record has its own attributes.
RECURSIVE GamepressGgLinks(_, _, _)
GamepressGgLinks(shiny_links, class_attr, acc) ==
    IF shiny_links = <<>> THEN acc
    ELSE LET dex_id == PyInt(OnlyDigits(Head(shiny_links)))
         IN  GamepressGgLinks(Tail(shiny_links), class_attr,
                 IF ~Has(acc.shiny_result, dex_id)
                 THEN [shiny_result |-> Put(acc.shiny_result, dex_id, NewShiny(dex_id)),
                       on_class |-> acc.on_class \cup {class_attr}]
                 ELSE [acc EXCEPT !.shiny_result =
                          Put(@, dex_id, [Get(@, dex_id) EXCEPT ![class_attr] = PyTrue])])

\* for html_class, class_attr in class_mapping.items()
RECURSIVE GamepressGgLoop(_, _, _)
GamepressGgLoop(mapping, rows, acc) ==
    IF mapping = <<>> THEN acc
    ELSE GamepressGgLoop(Tail(mapping), rows,
             GamepressGgLinks(ShinyLinks(rows, Head(mapping).html_class),
                              Head(mapping).class_attr, acc))

\* _load_shinies_gamepress_gg on the rows of the page
LoadShiniesGamepressGg(rows) ==
    GamepressGgLoop(class_mapping, rows, [shiny_result |-> <<>>, on_class |-> {}])

\* The values a source shows for an attribute of a species.
Shown(attr) ==
    CASE attr = "wild" -> {PyTrue, PyFalse}
      [] attr = "raid" -> {PyTrue}
      [] OTHER -> {PyFalse}

\* faulty variant of PogoapiNetShinies: the flags the API does not have are set to False
PogoapiNetShiniesAllSet(dex_id) ==
    {Shiny(dex_id, w, r, ev, eg, PyFalse, PyFalse) :
        w \in Shown("wild"), r \in Shown("raid"),
        ev \in Shown("evolution"), eg \in Shown("egg")}

\* the records _load_shinies_pogoapi_net builds: research and mystery stay None
PogoapiNetShinies(dex_id) ==
    {PogoapiNetShiny(dex_id, << Item("found_wild", w), Item("found_raid", r),
                                Item("found_evolution", ev), Item("found_egg", eg) >>) :
        w \in Shown("wild"), r \in Shown("raid"),
        ev \in Shown("evolution"), eg \in Shown("egg")}

\* the records _load_shinies_gamepress_gg builds: every flag is a boolean
GamepressGgShinies(dex_id) ==
    {Shiny(dex_id, w, r, PyFalse, PyFalse, re, my) :
        w \in Shown("wild"), r \in Shown("raid"),
        re \in Shown("research"), my \in Shown("mystery")}

DexIds == 1..MaxDexId

\* the records the loader named site_method builds for a species
ShiniesOf(site_method, dex_id) ==
    CASE site_method = load_shinies_pogoapi_net -> PogoapiNetShinies(dex_id)
      [] site_method = load_shinies_gamepress_gg -> GamepressGgShinies(dex_id)
      [] OTHER -> {}

Ok(result) == [kind |-> "ok", result |-> result]
Raise == [kind |-> "raise", result |-> <<>>]

\* what a call of the loader of a supported site can do: return the dict of
\* what the source shows, or raise (the request or the parsing fails)
LoaderOutcomes(site, shown) == {Raise, Ok(shown)}

----------------------------------------------------------------------------
(* ShinyManager *)

\* the file shiny_data.pickle: corrupt if pickle.load cannot read it
NoFile == [exists |-> FALSE, corrupt |-> FALSE, data |-> <<>>]

CorruptFile == [exists |-> TRUE, corrupt |-> TRUE, data |-> <<>>]

\* _load_shinies_from_file: the value of _shinies after it
LoadShiniesFromFile(current, f) == IF f.exists THEN f.data ELSE current

\* _store_shinies_to_file: the file after it
StoreShiniesToFile(current) == [exists |-> TRUE, corrupt |-> FALSE, data |-> current]

\* __init__ of the first ShinyManager(): _shinies = {} and then
\* _load_shinies_from_file(), whose pickle.load raises on a file it cannot read
ShinyManagerInit(f) ==
    IF f.exists /\ f.corrupt
    THEN [end |-> "raised", shinies |-> <<>>]
    ELSE [end |-> "returned", shinies |-> LoadShiniesFromFile(<<>>, f)]

\* get_shinies
get_shinies(site) == GetOr(shinies, site, <<>>)

\* faulty variant of ChangedAttributes: the pair is written [new, old]
RECURSIVE ChangedAttributesNewOld(_, _, _, _)
ChangedAttributesNewOld(shiny, known, attrs, changed_attributes) ==
    IF attrs = <<>> THEN changed_attributes
    ELSE LET attr == Head(attrs) IN
         IF shiny[attr] # known[attr]
         THEN ChangedAttributesNewOld(shiny, known, Tail(attrs),
                                      Put(changed_attributes, attr, <<shiny[attr], known[attr]>>))
         ELSE ChangedAttributesNewOld(shiny, known, Tail(attrs), changed_attributes)

\* the attributes of shiny that differ from the known record, with [old, new]
RECURSIVE ChangedAttributes(_, _, _, _)
ChangedAttributes(shiny, known, attrs, changed_attributes) ==
    IF attrs = <<>> THEN changed_attributes
    ELSE LET attr == Head(attrs) IN
         IF shiny[attr] # known[attr]
         THEN ChangedAttributes(shiny, known, Tail(attrs),
                                Put(changed_attributes, attr, <<known[attr], shiny[attr]>>))
         ELSE ChangedAttributes(shiny, known, Tail(attrs), changed_attributes)

\* "check if shiny is known"
IsKnown(known, dex_id) == Has(known, dex_id)

\* faulty variant of HasChanged: an else in place of the elif
HasChangedAlways(shiny, old) == TRUE

\* "check if shiny info has changed"
HasChanged(shiny, old) == ~ShinyEq(shiny, old)

\* faulty variant of DiffLoop: a new shiny replaces the new dict of the site
RECURSIVE DiffLoopLastNew(_, _, _, _)
DiffLoopLastNew(items, known, new, changed) ==
    IF items = <<>> THEN [new |-> new, changed |-> changed]
    ELSE LET dex_id == Head(items).k
             shiny == Head(items).v
         IN IF ~IsKnown(known, dex_id)
            THEN DiffLoopLastNew(Tail(items), known, <<Item(dex_id, shiny)>>, changed)
            ELSE IF HasChanged(shiny, Get(known, dex_id))
            THEN DiffLoopLastNew(Tail(items), known, new,
                                 Put(changed, dex_id,
                                     ChangedAttributes(shiny, Get(known, dex_id), Attrs, <<>>)))
            ELSE DiffLoopLastNew(Tail(items), known, new, changed)

\* faulty variant of DiffLoop: a new shiny is put in the changed dict as well
RECURSIVE DiffLoopChangedIsNew(_, _, _, _)
DiffLoopChangedIsNew(items, known, new, changed) ==
    IF items = <<>> THEN [new |-> new, changed |-> changed]
    ELSE LET dex_id == Head(items).k
             shiny == Head(items).v
         IN IF ~IsKnown(known, dex_id)
            THEN DiffLoopChangedIsNew(Tail(items), known, Put(new, dex_id, shiny),
                                      Put(changed, dex_id, <<>>))
            ELSE IF HasChanged(shiny, Get(known, dex_id))
            THEN DiffLoopChangedIsNew(Tail(items), known, new,
                                 Put(changed, dex_id,
                                     ChangedAttributes(shiny, Get(known, dex_id), Attrs, <<>>)))
            ELSE DiffLoopChangedIsNew(Tail(items), known, new, changed)

\* the loop over shiny_result.items(): the new and the changed dict of the site
RECURSIVE DiffLoop(_, _, _, _)
DiffLoop(items, known, new, changed) ==
    IF items = <<>> THEN [new |-> new, changed |-> changed]
    ELSE LET dex_id == Head(items).k
             shiny == Head(items).v
         IN IF ~IsKnown(known, dex_id)
            THEN DiffLoop(Tail(items), known, Put(new, dex_id, shiny), changed)
            ELSE IF HasChanged(shiny, Get(known, dex_id))
            THEN DiffLoop(Tail(items), known, new,
                          Put(changed, dex_id,
                              ChangedAttributes(shiny, Get(known, dex_id), Attrs, <<>>)))
            ELSE DiffLoop(Tail(items), known, new, changed)

\* OrderedDict(sorted(shiny_result.items()))
OrderedResult(shiny_result) == Sorted(shiny_result)

\* faulty variant of Remember: the result is merged into what is stored
RememberMerged(current, site, ordered_result) ==
    LET old == GetOr(current, site, <<>>)
        kept == SelectSeq(old, LAMBDA it : ~Has(ordered_result, it.k))
    IN Put(current, site, Sorted(kept \o ordered_result))

\* faulty variant of Remember: _shinies is rebuilt with the one site
RememberOnly(current, site, ordered_result) == <<Item(site, ordered_result)>>

\* self._shinies[site] = ordered_result
Remember(current, site, ordered_result) == Put(current, site, ordered_result)

\* the ids dropped by a fetch and not in the snapshot of the site since
StillGone(dropped, current) ==
    [s \in SupportedSet |-> dropped[s] \ Keys(GetOr(current, s, <<>>))]

NoCall == [site |-> <<>>, outcome |-> "none", shiny_result |-> <<>>,
           known |-> <<>>, repeat |-> FALSE, back |-> {}]

\* _load_shinies(site), the loader answering out
LoadShinies(site, out) ==
    LET site_method == SiteMethod(site) IN
    IF ~HasAttr(site_method)
    THEN \* raise Exception("Getting shinies from ... is not supported.")
         /\ call' = [NoCall EXCEPT !.site = site, !.outcome = "unsupported"]
         /\ UNCHANGED <<shinies, new_shinies, changed_shinies, fetched, gone>>
    ELSE LET new0 == Put(new_shinies, site, <<>>)
             changed0 == Put(changed_shinies, site, <<>>)
         IN IF site_method = load_shinies_from_file
            THEN \* the loader returns None and len(shiny_result) raises TypeError
                 /\ shinies' = LoadShiniesFromFile(shinies, file)
                 /\ new_shinies' = new0
                 /\ changed_shinies' = changed0
                 /\ call' = [NoCall EXCEPT !.site = site, !.outcome = "type_error"]
                 /\ gone' = StillGone(gone, LoadShiniesFromFile(shinies, file))
                 /\ UNCHANGED fetched
            ELSE IF out.kind = "raise"
            THEN \* the loader raises
                 /\ new_shinies' = new0
                 /\ changed_shinies' = changed0
                 /\ call' = [NoCall EXCEPT !.site = site, !.outcome = "fetch_error"]
                 /\ UNCHANGED <<shinies, fetched, gone>>
            ELSE LET shiny_result == out.result
                     shinies0 == IF ~Has(shinies, site) THEN Put(shinies, site, <<>>)
                                 ELSE shinies
                     known == Get(shinies0, site)
                     diff == DiffLoop(shiny_result, known, <<>>, <<>>)
                 IN /\ new_shinies' = Put(new0, site, diff.new)
                    /\ changed_shinies' = Put(changed0, site, diff.changed)
                    /\ shinies' = Remember(shinies0, site, OrderedResult(shiny_result))
                    /\ call' = [site |-> site, outcome |-> "ok",
                                shiny_result |-> shiny_result, known |-> known,
                                repeat |-> /\ Has(fetched, site)
                                           /\ Get(fetched, site) = shiny_result,
                                back |-> gone[site] \cap Keys(shiny_result)]
                    /\ fetched' = Put(fetched, site, shiny_result)
                    /\ gone' = [gone EXCEPT ![site] =
                                    (@ \cup Keys(known)) \ Keys(shiny_result)]

----------------------------------------------------------------------------
(* The job check_shinies, run by the job queue every 60 seconds. *)

NoNote == [got |-> FALSE, new |-> <<>>, changed |-> <<>>]

Feeds ==
    {f \in [SupportedSet -> UNION {LoaderOutcomes(s, web[s]) : s \in SupportedSet}] :
        \A s \in SupportedSet : f[s] \in LoaderOutcomes(s, web[s])}

NoFeed == [s \in SupportedSet |-> Raise]

\* when the process starts gamepress.gg lists nothing, and pogoapi.net lists
\* nothing or the species with the highest id
InitiallyShown(s) ==
    IF s = pogoapi_net
    THEN {<<>>, <<Item(MaxDexId, Shiny(MaxDexId, PyFalse, PyTrue, PyFalse, PyFalse,
                                      PyNone, PyNone))>>}
    ELSE {<<>>}

InitWith(start_pc, start_files) ==
    /\ shinies = <<>>
    /\ new_shinies = <<>>
    /\ changed_shinies = <<>>
    /\ file \in start_files
    /\ pc = start_pc
    /\ i = 1
    /\ web \in [SupportedSet -> UNION {InitiallyShown(s) : s \in SupportedSet}]
    /\ \A s \in SupportedSet : web[s] \in InitiallyShown(s)
    /\ edits = 0
    /\ feed = NoFeed
    /\ call = NoCall
    /\ fetched = <<>>
    /\ before = <<>>
    /\ stores = <<>>
    /\ pass_end = "none"
    /\ notified = NoNote
    /\ gone = [s \in SupportedSet |-> {}]
    /\ running = 0

\* the state after the first ShinyManager() of a process without a file
InitJob ==
    /\ InitWith("idle", {NoFile})
    /\ init_end = "returned"

NoRaw == [site |-> <<>>, data |-> <<>>]

NoParsed == [done |-> FALSE, shiny_result |-> <<>>, on_class |-> {}]

\* no loader is looked at by itself
InitLoader ==
    /\ raw = NoRaw
    /\ parsed = NoParsed

\* no listing is being sent
InitList ==
    /\ text = <<>>
    /\ shiny_str = <<>>
    /\ sent = <<>>
    /\ cuts = <<>>
    /\ list_pc = "none"

Chats == 1..MaxChats

\* before: chat_data before the run; before2: with twice, the chat's dict before
\* the run before
NoPress == [kind |-> "none", chat |-> 0, site |-> <<>>, before |-> <<>>,
            twice |-> FALSE, before2 |-> <<>>]

\* no chat has pressed a button: chat_data holds no 'disabled_sources'
InitSelect ==
    /\ chat_data = [c \in Chats |-> <<>>]
    /\ press = NoPress

Init == InitJob /\ InitLoader /\ InitList /\ InitSelect

\* A source changes: it lists one more species, drops one, or shows other flags
\* for one.  (A change during a pass is seen by the pass as one before it, if
\* the site is fetched later, or as one after it.)
SourceChanges ==
    /\ pc = "idle"
    /\ edits < MaxEdits
    /\ edits' = edits + 1
    /\ \E s \in SupportedSet :
         \E shown \in
               {Append(web[s], Item(d, sh)) :
                   d \in DexIds \ Keys(web[s]), sh \in UNION {ShiniesOf(SiteMethod(s), e) : e \in DexIds}}
               \cup {Without(web[s], j) : j \in 1..Len(web[s])}
               \cup {Put(web[s], web[s][j].k, sh) :
                        j \in 1..Len(web[s]), sh \in UNION {ShiniesOf(SiteMethod(s), e) : e \in DexIds}} :
            /\ shown # web[s]
            /\ \A j \in 1..Len(shown) : shown[j].v \in ShiniesOf(SiteMethod(s), shown[j].k)
            /\ web' = [web EXCEPT ![s] = shown]
    /\ UNCHANGED <<shinies, new_shinies, changed_shinies, file, pc, i, feed, call,
                   fetched, before, stores, pass_end, notified, gone, running>>
    /\ UNCHANGED othervars

\* faulty variant of CheckShinies: the job is started at every trigger, also
\* while its previous run has not ended
CheckShiniesAtEveryTrigger ==
    /\ running < 2
    /\ \E f \in Feeds : feed' = f
    /\ new_shinies' = <<>>
    /\ changed_shinies' = <<>>
    /\ pc' = "loop"
    /\ i' = 1
    /\ call' = NoCall
    /\ before' = shinies
    /\ stores' = <<>>
    /\ pass_end' = "running"
    /\ notified' = NoNote
    /\ running' = running + 1
    /\ UNCHANGED <<shinies, file, fetched, gone, web, edits>>
    /\ UNCHANGED othervars

\* The job queue triggers the job when its thread is free (it runs the jobs
\* that are due one after another): check_shinies starts and load_all_shinies
\* clears the diff of the previous pass
CheckShinies ==
    /\ pc = "idle"
    /\ \E f \in Feeds : feed' = f
    /\ new_shinies' = <<>>
    /\ changed_shinies' = <<>>
    /\ pc' = "loop"
    /\ i' = 1
    /\ call' = NoCall
    /\ before' = shinies
    /\ stores' = <<>>
    /\ pass_end' = "running"
    /\ notified' = NoNote
    /\ running' = running + 1
    /\ UNCHANGED <<shinies, file, fetched, gone, web, edits>>
    /\ UNCHANGED othervars

\* one turn of "for site in supported_sites: self._load_shinies(site)"; an
\* exception of _load_shinies leaves load_all_shinies and check_shinies
LoadAllStep ==
    /\ pc = "loop"
    /\ i <= Len(supported_sites)
    /\ LoadShinies(supported_sites[i], feed[supported_sites[i]])
    /\ IF call'.outcome = "ok"
       THEN /\ i' = i + 1
            /\ UNCHANGED <<pc, pass_end, running>>
       ELSE /\ pc' = "idle"
            /\ pass_end' = "raised"
            /\ running' = running - 1
            /\ UNCHANGED i
    /\ UNCHANGED <<file, web, edits, feed, before, stores, notified>>
    /\ UNCHANGED othervars

\* "store shinies", after the loop
StoreShinies ==
    /\ pc = "loop"
    /\ i > Len(supported_sites)
    /\ file' = StoreShiniesToFile(shinies)
    /\ stores' = Append(stores, i)
    /\ pc' = "notify"
    /\ UNCHANGED <<shinies, new_shinies, changed_shinies, i, web, edits, feed, call,
                   fetched, before, pass_end, notified, gone, running>>
    /\ UNCHANGED othervars

\* check_shinies reads get_all_new_shinies() and get_all_changed_shinies()
Notify ==
    /\ pc = "notify"
    /\ notified' = [got |-> TRUE, new |-> new_shinies, changed |-> changed_shinies]
    /\ pc' = "idle"
    /\ pass_end' = "returned"
    /\ running' = running - 1
    /\ UNCHANGED <<shinies, new_shinies, changed_shinies, file, i, web, edits, feed,
                   call, fetched, before, stores, gone>>
    /\ UNCHANGED othervars

\* the process is stopped and started again: ShinyManager.__init__
Restart ==
    /\ pc = "idle"
    /\ pass_end # "none"
    /\ shinies' = ShinyManagerInit(file).shinies
    /\ init_end' = ShinyManagerInit(file).end
    /\ new_shinies' = <<>>
    /\ changed_shinies' = <<>>
    /\ i' = 1
    /\ feed' = NoFeed
    /\ call' = NoCall
    /\ fetched' = <<>>
    /\ gone' = StillGone(gone, LoadShiniesFromFile(<<>>, file))
    /\ before' = <<>>
    /\ stores' = <<>>
    /\ pass_end' = "none"
    /\ notified' = NoNote
    /\ running' = 0
    /\ UNCHANGED <<file, pc, web, edits>>
    /\ UNCHANGED <<loadervars, listvars, selectvars>>

Next == SourceChanges \/ CheckShinies \/ LoadAllStep \/ StoreShinies \/ Notify \/ Restart

Spec == Init /\ [][Next]_vars

\* _load_shinies called on its own with an identifier that is no supported site
CallLoadShinies(site) ==
    /\ pc = "idle"
    /\ LoadShinies(site, Raise)
    /\ UNCHANGED <<file, pc, i, web, edits, feed, before, stores, pass_end, notified,
                   running>>
    /\ UNCHANGED othervars

NextCall == Next \/ \E site \in OtherIds : CallLoadShinies(site)

SpecCall == Init /\ [][NextCall]_vars

----------------------------------------------------------------------------
(* The start of the process, with the file as the process finds it. *)

\* what a file written by _store_shinies_to_file holds
StoredData ==
    {<<>>} \cup UNION {{<<Item(pogoapi_net, <<Item(d, sh)>>)>> : sh \in PogoapiNetShinies(d)} :
                      d \in DexIds}

StartFiles == {NoFile, CorruptFile} \cup {StoreShiniesToFile(data) : data \in StoredData}

InitStart ==
    /\ InitWith("start", StartFiles)
    /\ init_end = "none"
    /\ InitLoader
    /\ InitList
    /\ InitSelect

\* the first ShinyManager() of the process
Construct ==
    /\ pc = "start"
    /\ shinies' = ShinyManagerInit(file).shinies
    /\ init_end' = ShinyManagerInit(file).end
    /\ pc' = "idle"
    /\ UNCHANGED <<new_shinies, changed_shinies, file, i, web, edits, feed, call, fetched,
                   before, stores, pass_end, notified, gone, running>>
    /\ UNCHANGED <<loadervars, listvars, selectvars>>

NextStart == Construct \/ Next

SpecStart == InitStart /\ [][NextStart]_vars

----------------------------------------------------------------------------
(* A loader taken by itself: what it makes of what its source answers. *)

SeqsUpTo(S, n) == UNION {[1..k -> S] : k \in 0..n}

\* the keys of the JSON object: a species id as the API writes it, with or
\* without a leading zero
JsonKeys == {<<Digits[d + 1]>> : d \in DexIds} \cup {<<"0", Digits[d + 1]>> : d \in DexIds}

\* the values of the JSON object
JsonObjects ==
    {w \o e : w \in {<<>>, <<Item("found_wild", PyTrue)>>, <<Item("found_wild", PyFalse)>>},
              e \in {<<>>, <<Item("found_egg", PyTrue)>>}}

\* json.loads(response.read()): an object holds no key twice
JsonData ==
    {data \in SeqsUpTo({Item(k, v) : k \in JsonKeys, v \in JsonObjects}, MaxItems) :
        NoDuplicates(data)}

\* link_tag.attrib['href']
Hrefs == {<<"/", "p", "/", Digits[d + 1]>> : d \in DexIds}

\* the table rows of the page: the class attribute and the links of a row
Rows ==
    {[class |-> <<c>>, links |-> <<h>>] :
        c \in {"Raids", "Wild", "Nesting", "Eggs", "Research"}, h \in Hrefs}

Pages == SeqsUpTo(Rows, MaxRows)

InitLoaders ==
    /\ InitJob
    /\ \A s \in SupportedSet : web[s] = <<>>
    /\ raw \in {[site |-> pogoapi_net, data |-> data] : data \in JsonData}
              \cup {[site |-> gamepress_gg, data |-> rows] : rows \in Pages}
    /\ parsed = NoParsed
    /\ InitList
    /\ InitSelect

ParsePogoapiNet ==
    /\ raw.site = pogoapi_net
    /\ ~parsed.done
    /\ parsed' = [done |-> TRUE, shiny_result |-> LoadShiniesPogoapiNet(raw.data),
                  on_class |-> {}]
    /\ UNCHANGED <<jobvars, init_end, raw, listvars, selectvars>>

ParseGamepressGg ==
    /\ raw.site = gamepress_gg
    /\ ~parsed.done
    /\ parsed' = [done |-> TRUE] @@ LoadShiniesGamepressGg(raw.data)
    /\ UNCHANGED <<jobvars, init_end, raw, listvars, selectvars>>

NextLoaders == ParsePogoapiNet \/ ParseGamepressGg

SpecLoaders == InitLoaders /\ [][NextLoaders]_vars

----------------------------------------------------------------------------
(* list_shinies: the listing of a site is sent in messages of at most       *)
(* MAX_MESSAGE_LENGTH characters.  A text is a sequence of characters.      *)

\* the listings: "*site*\n" and the lines of the species joined by "\n", so a
\* listing neither starts nor ends with a line break and has no empty line
Texts ==
    {t \in SeqsUpTo({"a", "\n"}, MaxTextLen) :
        /\ t # <<>>
        /\ t[1] # "\n"
        /\ t[Len(t)] # "\n"
        /\ \A j \in 1..(Len(t) - 1) : ~(t[j] = "\n" /\ t[j + 1] = "\n")}

\* s[:n]
Prefix(s, n) == SubSeq(s, 1, IF n < Len(s) THEN n ELSE Len(s))

\* s[n:]
Suffix(s, n) == SubSeq(s, (IF n < Len(s) THEN n ELSE Len(s)) + 1, Len(s))

\* faulty variant of RFind: str.find, the lowest index
Find(s, c) ==
    IF \E j \in 1..Len(s) : s[j] = c
    THEN (CHOOSE j \in 1..Len(s) : s[j] = c /\ \A k \in 1..(j - 1) : s[k] # c) - 1
    ELSE -1

\* s.rfind(c): the highest index of c in s, counted from 0, or -1
RFind(s, c) ==
    IF \E j \in 1..Len(s) : s[j] = c
    THEN (CHOOSE j \in 1..Len(s) : s[j] = c /\ \A k \in (j + 1)..Len(s) : s[k] # c) - 1
    ELSE -1

\* the cut_off_index of a turn of the loop
CutOffIndex(str) ==
    LET cut_off_index == RFind(Prefix(str, MaxMessageLength), "\n")
    IN  IF cut_off_index < 0 THEN MaxMessageLength ELSE cut_off_index

InitListing ==
    /\ InitJob
    /\ \A s \in SupportedSet : web[s] = <<>>
    /\ InitLoader
    /\ text \in Texts
    /\ shiny_str = text
    /\ sent = <<>>
    /\ cuts = <<>>
    /\ list_pc = "loop"
    /\ InitSelect

\* a turn of "while len(shiny_str) > telegram.constants.MAX_MESSAGE_LENGTH"
SendFitting ==
    /\ list_pc = "loop"
    /\ Len(shiny_str) > MaxMessageLength
    /\ Len(sent) < MaxMessages
    /\ LET cut_off_index == CutOffIndex(shiny_str)
           fitting_message == Prefix(shiny_str, cut_off_index)
       IN  /\ shiny_str' = Suffix(shiny_str, cut_off_index)
           /\ sent' = Append(sent, fitting_message)
    /\ cuts' = Append(cuts, shiny_str)
    /\ UNCHANGED <<text, list_pc>>
    /\ UNCHANGED <<jobvars, init_end, loadervars, selectvars>>

\* "send whats left"
SendRest ==
    /\ list_pc = "loop"
    /\ Len(shiny_str) <= MaxMessageLength
    /\ sent' = Append(sent, shiny_str)
    /\ list_pc' = "done"
    /\ UNCHANGED <<text, shiny_str, cuts>>
    /\ UNCHANGED <<jobvars, init_end, loadervars, selectvars>>

NextList == SendFitting \/ SendRest

SpecList == InitListing /\ [][NextList]_vars

----------------------------------------------------------------------------
(* select_source: a chat presses a button of the source selection. *)

\* str.split() of a string without leading, trailing or repeated blanks
RECURSIVE Split(_, _)
Split(str, word) ==
    IF str = <<>> THEN <<word>>
    ELSE IF Head(str) = " " THEN <<word>> \o Split(Tail(str), <<>>)
    ELSE Split(Tail(str), Append(word, Head(str)))

\* the sites a button can name: the supported sites and one supported no more
ButtonSites == SupportedSet \cup {<<"example", ".", "com">>}

\* query.data: 'select_source' of the start menu, f"select_source {site}" of a
\* button of the keyboard
CallbackData ==
    {<<"select_source">>} \cup {<<"select_source", " ">> \o site : site \in ButtonSites}

\* list.remove(x): the list without the first x
Remove(list, x) ==
    Without(list, CHOOSE j \in 1..Len(list) : list[j] = x /\ \A k \in 1..(j - 1) : list[k] # x)

\* x in list
In(x, list) == \E j \in 1..Len(list) : list[j] = x

\* faulty variant of Toggle: the site is appended whether it is in the list or not
ToggleAppends(data, site) ==
    IF ~Has(data, "disabled_sources")
    THEN Put(data, "disabled_sources", <<site>>)
    ELSE Put(data, "disabled_sources", Append(Get(data, "disabled_sources"), site))

\* the chat_data of the chat after "if len(params) == 2:" for the site
Toggle(data, site) ==
    IF ~Has(data, "disabled_sources")
    THEN Put(data, "disabled_sources", <<site>>)
    ELSE IF In(site, Get(data, "disabled_sources"))
    THEN Put(data, "disabled_sources", Remove(Get(data, "disabled_sources"), site))
    ELSE Put(data, "disabled_sources", Append(Get(data, "disabled_sources"), site))

\* select_source in the chat chat with the callback data data; press.twice
\* tells that the run before was of the same chat for the same site
SelectSource(chat, data) ==
    LET params == Split(data, <<>>) IN
    /\ IF Len(params) = 2
       THEN LET site == params[2]
                twice == /\ press.kind = "press"
                         /\ press.chat = chat
                         /\ press.site = site
            IN
            /\ chat_data' = [chat_data EXCEPT ![chat] = Toggle(@, site)]
            /\ press' = [kind |-> "press", chat |-> chat, site |-> site,
                         before |-> chat_data, twice |-> twice,
                         before2 |-> IF twice THEN press.before[chat] ELSE <<>>]
       ELSE /\ press' = [NoPress EXCEPT !.kind = "show", !.chat = chat]
            /\ UNCHANGED chat_data
    /\ UNCHANGED <<jobvars, init_end, loadervars, listvars>>

NextSelect == \E chat \in Chats, data \in CallbackData : SelectSource(chat, data)

InitSelecting ==
    /\ Init
    /\ \A s \in SupportedSet : web[s] = <<>>

SpecSelect == InitSelecting /\ [][NextSelect]_vars

----------------------------------------------------------------------------
(* Properties of _load_shinies.  call holds the site, the loader's result  *)
(* (shiny_result) and the site's stored snapshot at the time of the call   *)
(* (known) of the most recent call.                                        *)

Reconciled == call.outcome = "ok"

\* C1: after _load_shinies(S) the new dict of S holds exactly the ids that the
\* loader returned and that S's stored snapshot did not hold, each with the
\* record the loader returned.
C1_NewDetection ==
    Reconciled =>
        /\ Has(new_shinies, call.site)
        /\ LET new == Get(new_shinies, call.site) IN
           /\ NoDuplicates(new)
           /\ Keys(new) = Keys(call.shiny_result) \ Keys(call.known)
           /\ \A d \in Keys(new) : Get(new, d) = Get(call.shiny_result, d)

\* a call that found a new id beside an id that was stored already
C1_Witness ==
    /\ Reconciled
    /\ Get(new_shinies, call.site) # <<>>
    /\ Keys(call.shiny_result) \cap Keys(call.known) # {}

\* the flags in which the fetched record of d differs from the stored one
Differing(d) ==
    {f \in Flags : Get(call.shiny_result, d)[f] # Get(call.known, d)[f]}

\* C2: after _load_shinies(S) the changed dict of S holds exactly the ids that
\* are fetched and stored with a differing flag, and maps each to exactly its
\* differing flags, each with the pair [stored value, fetched value].
C2_ChangeDetection ==
    Reconciled =>
        /\ Has(changed_shinies, call.site)
        /\ LET changed == Get(changed_shinies, call.site) IN
           /\ NoDuplicates(changed)
           /\ Keys(changed) =
                 {d \in Keys(call.shiny_result) \cap Keys(call.known) : Differing(d) # {}}
           /\ \A d \in Keys(changed) :
                 /\ NoDuplicates(Get(changed, d))
                 /\ Keys(Get(changed, d)) = Differing(d)
                 /\ \A f \in Differing(d) :
                       Get(Get(changed, d), f) =
                           <<Get(call.known, d)[f], Get(call.shiny_result, d)[f]>>

\* a call that found a changed flag (wild) beside an unchanged one (raid is True)
C2_Witness ==
    /\ Reconciled
    /\ \E d \in Keys(Get(changed_shinies, call.site)) :
          /\ Has(Get(Get(changed_shinies, call.site), d), "wild")
          /\ Get(call.shiny_result, d).raid = PyTrue
          /\ Get(call.known, d).raid = PyTrue

\* C3: after a successful _load_shinies(S), get_shinies(S) holds exactly the
\* fetched ids with the fetched records; an id stored before and not fetched
\* is gone.
C3_Replacement ==
    Reconciled =>
        /\ NoDuplicates(get_shinies(call.site))
        /\ Keys(get_shinies(call.site)) = Keys(call.shiny_result)
        /\ \A d \in Keys(call.shiny_result) :
              Get(get_shinies(call.site), d) = Get(call.shiny_result, d)

\* a call whose fetch lacks a stored id and lists another
C3_Witness ==
    /\ Reconciled
    /\ Keys(call.known) \ Keys(call.shiny_result) # {}
    /\ call.shiny_result # <<>>

\* a call whose result had to be sorted
C3_WitnessUnsorted ==
    /\ Reconciled
    /\ Len(call.shiny_result) = 2
    /\ call.shiny_result[1].k > call.shiny_result[2].k
    /\ get_shinies(call.site)[1].k < get_shinies(call.site)[2].k

\* C5: a _load_shinies(S) whose loader returns what it returned at the previous
\* successful _load_shinies(S) leaves the new and the changed dict of S empty.
C5_Idempotence ==
    (Reconciled /\ call.repeat) =>
        /\ Get(new_shinies, call.site) = <<>>
        /\ Get(changed_shinies, call.site) = <<>>

\* a second run with the same, non-empty result
C5_Witness ==
    /\ Reconciled
    /\ call.repeat
    /\ call.shiny_result # <<>>

\* C6: after _load_shinies(S) an id whose fetched record equals its stored
\* record is in neither dict, no id is in both, and no id of the changed dict
\* has an empty dict of changes.
C6_NoSpuriousChanges ==
    Reconciled =>
        LET new == Get(new_shinies, call.site)
            changed == Get(changed_shinies, call.site)
        IN /\ \A d \in Keys(call.shiny_result) \cap Keys(call.known) :
                 Get(call.shiny_result, d) = Get(call.known, d)
                     => d \notin Keys(new) \cup Keys(changed)
           /\ Keys(new) \cap Keys(changed) = {}
           /\ \A d \in Keys(changed) : Get(changed, d) # <<>>

\* a call that met an unchanged record beside a new one
C6_Witness ==
    /\ Reconciled
    /\ \E d \in Keys(call.shiny_result) \cap Keys(call.known) :
          Get(call.shiny_result, d) = Get(call.known, d)
    /\ Get(new_shinies, call.site) # <<>>

----------------------------------------------------------------------------
(* Properties of a pass: check_shinies and load_all_shinies. *)

\* the latest pass is over: load_all_shinies returned or raised
PassEnded == pc = "idle" /\ pass_end \in {"returned", "raised"}

AllSites == SupportedSet \cup OtherIds

\* C4: in a pass where the fetch of a site A fails and the fetch of the other
\* site B succeeds, whichever comes first, the pass does not raise, B is
\* reconciled and its diff is handed to check_shinies, A has no diff, and
\* get_shinies(A) is what it was before the pass.
C4_FetchFailureIsolation ==
    PassEnded =>
        \A A, B \in SupportedSet :
            (A # B /\ feed[A].kind = "raise" /\ feed[B].kind = "ok") =>
                /\ pass_end = "returned"
                /\ Keys(get_shinies(B)) = Keys(feed[B].result)
                /\ \A d \in Keys(feed[B].result) :
                      Get(get_shinies(B), d) = Get(feed[B].result, d)
                /\ notified.got
                /\ Has(notified.new, B)
                /\ Has(notified.changed, B)
                /\ Keys(Get(notified.new, B)) =
                      Keys(feed[B].result) \ Keys(GetOr(before, B, <<>>))
                /\ GetOr(notified.new, A, <<>>) = <<>>
                /\ GetOr(notified.changed, A, <<>>) = <<>>
                /\ get_shinies(A) = GetOr(before, A, <<>>)

\* C7: every pass calls _store_shinies_to_file exactly once, after the loop
\* over the supported sites is through, also a pass in which a fetch fails.
C7_PersistOnceAfterAllSites ==
    PassEnded => stores = <<Len(supported_sites) + 1>>

\* C8: whenever no pass is executing, the snapshot of every site in memory is
\* the snapshot of that site in the file.
C8_MemoryIsPersisted ==
    pc = "idle" =>
        \A s \in SupportedSet : get_shinies(s) = GetOr(file.data, s, <<>>)

\* C9: _load_shinies with an identifier that has no fetch adapter fails and
\* leaves _shinies, _new_shinies and _changed_shinies as they were.
C9_UnsupportedLeavesState ==
    [][\A site \in OtherIds :
          CallLoadShinies(site) =>
              /\ call'.outcome \in {"unsupported", "type_error"}
              /\ shinies' = shinies
              /\ new_shinies' = new_shinies
              /\ changed_shinies' = changed_shinies]_vars

\* C10: _load_shinies(S) changes the snapshot and the diff entries of S only,
\* and leaves the file alone.
C10_Frame ==
    [][LoadAllStep =>
          LET S == supported_sites[i] IN
          /\ \A t \in AllSites \ {S} :
                /\ Has(shinies', t) = Has(shinies, t)
                /\ GetOr(shinies', t, <<>>) = GetOr(shinies, t, <<>>)
                /\ Has(new_shinies', t) = Has(new_shinies, t)
                /\ GetOr(new_shinies', t, <<>>) = GetOr(new_shinies, t, <<>>)
                /\ Has(changed_shinies', t) = Has(changed_shinies, t)
                /\ GetOr(changed_shinies', t, <<>>) = GetOr(changed_shinies, t, <<>>)
          /\ file' = file]_vars

\* the second site was reconciled and changed, while the first site has a
\* snapshot and a diff of its own and the file is not yet written
C10_Witness ==
    /\ pc = "loop"
    /\ Reconciled
    /\ call.site = gamepress_gg
    /\ call.known # get_shinies(gamepress_gg)
    /\ get_shinies(pogoapi_net) # <<>>
    /\ Get(new_shinies, pogoapi_net) # <<>>
    /\ file # StoreShiniesToFile(shinies)

----------------------------------------------------------------------------
(* Properties of the stored records. *)

PyBool == {PyTrue, PyFalse}

\* the records stored for a site
Stored(s) == {get_shinies(s)[j].v : j \in 1..Len(get_shinies(s))}

\* C13 as claimed: every stored record of either site has True or False for
\* every flag.
C13_AllFlagsBoolean ==
    \A s \in SupportedSet : \A shiny \in Stored(s) : \A f \in Flags : shiny[f] \in PyBool

\* C13 as amended: every stored record has a value for every flag; a record of
\* gamepress.gg has True or False for each, a record of pogoapi.net has True
\* or False for wild, raid, evolution and egg and None for research and mystery.
C13_FlagValues ==
    /\ \A s \in SupportedSet : \A shiny \in Stored(s) :
          DOMAIN shiny = {Attrs[j] : j \in 1..Len(Attrs)}
    /\ \A shiny \in Stored(gamepress_gg) : \A f \in Flags : shiny[f] \in PyBool
    /\ \A shiny \in Stored(pogoapi_net) :
          /\ \A f \in {"wild", "raid", "evolution", "egg"} : shiny[f] \in PyBool
          /\ shiny.research = PyNone
          /\ shiny.mystery = PyNone

\* both sites have records stored
C13_Witness ==
    /\ Stored(pogoapi_net) # {}
    /\ Stored(gamepress_gg) # {}

\* C17: a fetch of a site that does not list an id stored for the site drops
\* the id from the snapshot and puts it in neither the new nor the changed dict;
\* a later fetch that lists an id dropped before (call.back) puts it in the
\* snapshot and in the new dict, and not in the changed dict.
C17_DisappearReappear ==
    Reconciled =>
        LET s == call.site IN
        /\ \A x \in Keys(call.known) \ Keys(call.shiny_result) :
              /\ ~Has(get_shinies(s), x)
              /\ ~Has(Get(new_shinies, s), x)
              /\ ~Has(Get(changed_shinies, s), x)
        /\ \A x \in call.back :
              /\ Has(get_shinies(s), x)
              /\ Has(Get(new_shinies, s), x)
              /\ ~Has(Get(changed_shinies, s), x)

\* a fetch has just listed again an id that an earlier fetch had dropped
C17_Witness ==
    /\ Reconciled
    /\ call.back # {}
    /\ Has(Get(new_shinies, call.site), CHOOSE x \in call.back : TRUE)

\* C15: the construction of the manager does not raise, and when the file is
\* missing or cannot be read every site that has not been reconciled since
\* has an empty snapshot.
C15_LoadNeverFails ==
    (init_end # "none" /\ (~file.exists \/ file.corrupt)) =>
        /\ init_end = "returned"
        /\ \A s \in SupportedSet : ~Has(fetched, s) => get_shinies(s) = <<>>

\* C16: a pass that has put a new species, or a changed flag of a species, in
\* the snapshot of a site has handed that species to check_shinies in the
\* site's new, or changed, dict.
C16_NoDiffLost ==
    PassEnded =>
        \A s \in SupportedSet :
            LET old == GetOr(before, s, <<>>)
                cur == get_shinies(s)
            IN  /\ \A x \in Keys(cur) \ Keys(old) :
                      /\ notified.got
                      /\ Has(GetOr(notified.new, s, <<>>), x)
                /\ \A x \in Keys(cur) \cap Keys(old) :
                      Get(cur, x) # Get(old, x) =>
                          /\ notified.got
                          /\ Has(GetOr(notified.changed, s, <<>>), x)

----------------------------------------------------------------------------
(* Properties of the loaders. *)

\* the places of the JSON object where the species dex_id stands
Occurrences(data, dex_id) == {j \in 1..Len(data) : PyInt(data[j].k) = dex_id}

Last(S) == CHOOSE j \in S : \A k \in S : k <= j

\* the links the page loader meets, in the order it meets them, each with the
\* flag of the class it is met under
RECURSIVE Visits(_, _)
Visits(mapping, rows) ==
    IF mapping = <<>> THEN <<>>
    ELSE LET shiny_links == ShinyLinks(rows, Head(mapping).html_class)
         IN  [j \in 1..Len(shiny_links) |->
                 [dex_id |-> PyInt(OnlyDigits(shiny_links[j])),
                  class_attr |-> Head(mapping).class_attr]]
             \o Visits(Tail(mapping), rows)

VisitsOf(dex_id) ==
    LET visits == Visits(class_mapping, raw.data)
    IN  {j \in 1..Len(visits) : visits[j].dex_id = dex_id}

VisitAttr(j) == Visits(class_mapping, raw.data)[j].class_attr

First(S) == CHOOSE j \in S : \A k \in S : j <= k

\* the JSON loader keeps one record for an id and builds it from the id's last item
JsonLaterOnly ==
    (parsed.done /\ raw.site = pogoapi_net) =>
        /\ NoDuplicates(parsed.shiny_result)
        /\ \A dex_id \in Keys(parsed.shiny_result) :
              Get(parsed.shiny_result, dex_id)
                  = PogoapiNetShiny(dex_id, raw.data[Last(Occurrences(raw.data, dex_id))].v)

\* C14 as claimed: a loader that meets an id more than once keeps a single
\* record for it, and the record is that of the last occurrence only: in the
\* page loader, the flag of the last class the id is met under and no other.
C14_LaterOccurrenceOnly ==
    /\ JsonLaterOnly
    /\ (parsed.done /\ raw.site = gamepress_gg) =>
          /\ NoDuplicates(parsed.shiny_result)
          /\ \A dex_id \in Keys(parsed.shiny_result) :
                Cardinality(VisitsOf(dex_id)) > 1 =>
                    Get(parsed.shiny_result, dex_id)
                        = [NewShiny(dex_id) EXCEPT ![VisitAttr(Last(VisitsOf(dex_id)))] = PyTrue]

\* C14 as amended: both loaders keep a single record for an id; the JSON
\* loader builds it from the last occurrence only, the page loader sets in it
\* the flag of every occurrence after the first (the flags are merged).
C14_DuplicateHandling ==
    /\ JsonLaterOnly
    /\ (parsed.done /\ raw.site = gamepress_gg) =>
          /\ NoDuplicates(parsed.shiny_result)
          /\ \A dex_id \in Keys(parsed.shiny_result) :
                \A j \in VisitsOf(dex_id) \ {First(VisitsOf(dex_id))} :
                    Get(parsed.shiny_result, dex_id)[VisitAttr(j)] = PyTrue

\* an id is met three times, under classes of three different flags
C14_Witness ==
    /\ parsed.done
    /\ raw.site = gamepress_gg
    /\ \E dex_id \in Keys(parsed.shiny_result) :
          /\ Cardinality(VisitsOf(dex_id)) = 3
          /\ Cardinality({VisitAttr(j) : j \in VisitsOf(dex_id)}) = 3

\* an id stands twice in the JSON object, with differing flags
C14_WitnessJson ==
    /\ parsed.done
    /\ raw.site = pogoapi_net
    /\ \E j, k \in 1..Len(raw.data) :
          /\ j < k
          /\ PyInt(raw.data[j].k) = PyInt(raw.data[k].k)
          /\ PogoapiNetShiny(1, raw.data[j].v) # PogoapiNetShiny(1, raw.data[k].v)

\* C18: in the page loader's result a flag of an id's record is True exactly
\* if the id is linked from a row of a class that maps to the flag, the class
\* the id is met under first included.
C18_FlagIffLinked ==
    (parsed.done /\ raw.site = gamepress_gg) =>
        \A dex_id \in Keys(parsed.shiny_result) : \A f \in Flags :
            (Get(parsed.shiny_result, dex_id)[f] = PyTrue)
                <=> (\E j \in VisitsOf(dex_id) : VisitAttr(j) = f)

----------------------------------------------------------------------------
(* Properties of the pagination of list_shinies. *)

RECURSIVE Concat(_)
Concat(messages) ==
    IF messages = <<>> THEN <<>> ELSE Head(messages) \o Concat(Tail(messages))

\* the places of the line breaks within the first MAX_MESSAGE_LENGTH characters
BreaksWithin(str) ==
    {j \in 1..Len(str) : j <= MaxMessageLength /\ str[j] = "\n"}

\* C19: every message sent is at most MAX_MESSAGE_LENGTH long; a turn of the
\* loop sends what stands before the last line break within the limit, or the
\* first MAX_MESSAGE_LENGTH characters if there is none; the messages sent and
\* what is not sent yet make up the listing, the messages alone once the
\* last one is sent.
C19_Pagination ==
    list_pc # "none" =>
        /\ \A j \in 1..Len(sent) : Len(sent[j]) <= MaxMessageLength
        /\ \A j \in 1..Len(cuts) :
              /\ Len(cuts[j]) > MaxMessageLength
              /\ sent[j] = SubSeq(cuts[j], 1, Len(sent[j]))
              /\ IF BreaksWithin(cuts[j]) = {}
                 THEN Len(sent[j]) = MaxMessageLength
                 ELSE /\ Len(sent[j]) + 1 \in BreaksWithin(cuts[j])
                      /\ \A k \in BreaksWithin(cuts[j]) : k <= Len(sent[j]) + 1
        /\ list_pc = "loop" => Concat(sent) \o shiny_str = text
        /\ list_pc = "done" => Concat(sent) = text

\* a listing has been sent in three messages or more, one of them by a cut at
\* a line break and one by a hard cut
C19_Witness ==
    /\ list_pc = "done"
    /\ Len(sent) >= 3
    /\ \E j \in 1..Len(cuts) : BreaksWithin(cuts[j]) = {}
    /\ \E j \in 1..Len(cuts) : BreaksWithin(cuts[j]) # {} /\ sent[j] # <<>>

\* C20: every turn of the loop sends a message that is not empty and leaves
\* less to send than there was.
C20_LoopProgress ==
    \A j \in 1..Len(cuts) :
        /\ sent[j] # <<>>
        /\ Len(cuts[j]) >
              Len(IF j < Len(cuts) THEN cuts[j + 1] ELSE shiny_str)

----------------------------------------------------------------------------
(* Properties of select_source. *)

\* the sites a chat_data has disabled, as a list and as a set
DisabledList(data) == GetOr(data, "disabled_sources", <<>>)

Disabled(data) == {DisabledList(data)[j] : j \in 1..Len(DisabledList(data))}

\* C21: no disabled_sources list holds a site twice; a press of chat c on
\* site X has changed whether X is disabled in c, and nothing else in any
\* chat; two presses in a row of c on X leave c with the sites disabled that
\* were disabled before the two.
C21_Toggle ==
    /\ \A c \in Chats :
          Len(DisabledList(chat_data[c])) = Cardinality(Disabled(chat_data[c]))
    /\ press.kind = "press" =>
          /\ \A c \in Chats \ {press.chat} : chat_data[c] = press.before[c]
          /\ \A site \in ButtonSites \ {press.site} :
                site \in Disabled(chat_data[press.chat])
                    <=> site \in Disabled(press.before[press.chat])
          /\ press.site \in Disabled(chat_data[press.chat])
                <=> press.site \notin Disabled(press.before[press.chat])
    /\ (press.kind = "press" /\ press.twice) =>
          Disabled(chat_data[press.chat]) = Disabled(press.before2)

\* a chat with two sites disabled has pressed twice in a row on the one
\* disabled first, which is now the one disabled last
C21_Witness ==
    /\ press.kind = "press"
    /\ press.twice
    /\ Len(DisabledList(chat_data[press.chat])) = 2
    /\ DisabledList(chat_data[press.chat])[2] = press.site
    /\ DisabledList(press.before2)[1] = press.site

====
